---- MODULE Spec2Model ----
(***************************************************************************)
(* Task graph scheduler and rate-limited parallel executor of claude-auto. *)
(*                                                                         *)
(*   TaskManager       (package tasks)  registry, AddDependency, DFS       *)
(*   ParallelExecutor  (package tasks)  topologicalSort, ExecuteTasks      *)
(*   ClaudeExecutor    (package core)   executeWithRetry, executeOnce      *)
(*   RateLimiter       (package core)   Wait, SetRateLimit                 *)
(*                                                                         *)
(* One set of variables, several specifications:                           *)
(*   SpecReg    CreateTask / AddDependency calls on one TaskManager        *)
(*   SpecSort   topologicalSort and GetExecutionOrder applied to an        *)
(*              arbitrary task set (cyclic and dangling ones included)     *)
(*   SpecExec   one ExecuteTasks run over an acyclic registry whose tasks   *)
(*              are all Pending, with the scheduling fairness of its       *)
(*              goroutines                                                 *)
(*   SpecBatch  the same run over tasks without dependencies: one          *)
(*              executeBatch call on one batch                             *)
(*   SpecCancel SpecBatch's run with a caller that may cancel its context   *)
(*   SpecStatus UpdateTaskStatus / SetTaskResult / SetTaskError calls on a  *)
(*              registry, in any order                                     *)
(*   SpecStamp  SpecStatus restricted to the calls that write Status       *)
(*   SpecSnap   GetAllTasks / GetTasksByStatus, a client writing to what it *)
(*              was handed, and UpdateTaskStatus                           *)
(*   SpecRL     concurrent Wait and SetRateLimit calls on one RateLimiter, *)
(*              with a clock                                               *)
(*   SpecRLCancel SpecRL with callers whose context may be cancelled       *)
(*   SpecWindow the same without SetRateLimit: the sliding window alone    *)
(*   SpecIdea   the IdeaProcessor building the task graph of an idea, then  *)
(*              topologicalSort                                            *)
(*   SpecRLLive every method of the RateLimiter, with the fairness of the   *)
(*              clock, of the sleeps and of the lock                        *)
(***************************************************************************)
EXTENDS Integers, Sequences, FiniteSets, TLC

\* ------------------------------------------------------------------ bounds
MaxTasks == 3

MaxEdges == 3

MaxWorkers == 2

\* Largest batch handed to executeBatch in SpecBatch.
MaxBatch == 2

\* SpecRL: callers of the shared limiter, last clock tick.
NumCallers == 2

MaxTime == 3

\* RateLimiter.maxRequests and RateLimiter.window (in ticks), scaled down
\* from NewRateLimiter's 10 requests per minute.
maxRequests == 1

window == 2

\* NewClaudeExecutor: maxRetries: 3
maxRetries == 3

\* NewParallelExecutor: "Default to 3 workers"
DefaultWorkers == 3

\* Task IDs.  CreateTask builds "task-<idCounter>-<type>"; the counter alone
\* identifies the task, so the model uses the counter value as the ID.
IDs == 1..MaxTasks

VARIABLES
    tasks,      \* TaskManager.tasks: ID -> Task (the fields the core reads)
    idCounter,  \* TaskManager.idCounter
    lastErr,    \* error returned by the last TaskManager call
    lastCall,   \* the last TaskManager call, <<name, args...>>
    snapshot,   \* the slice a client got from GetAllTasks / GetTasksByStatus:
                \* a sequence of *types.Task, each pointer named by the ID of
                \* the Task it points to
    idea,       \* IdeaProcessor: the flags of the ProcessedIdea being decomposed
    ipc,        \* IdeaProcessor: the TaskManager calls made so far
    sortPhase,  \* SpecSort: which functions have been applied
    batches,    \* result of topologicalSort: sequence of batches (sets of IDs)
    sortErr,    \* error reported together with the batch list
    order,      \* result of GetExecutionOrder: sequence of IDs
    orderErr,   \* error of GetExecutionOrder
    maxWorkers, \* ParallelExecutor.maxWorkers
    activeWorkers, \* ParallelExecutor.activeWorkers
    pcMain,     \* position of the goroutine running ExecuteTasks
    batchIdx,   \* ExecuteTasks: index of the batch being executed (from 1)
    execErr,    \* error returned by ExecuteTasks
    report,     \* ExecutionReport counts written by updateReport
    ctxDone,    \* the caller's context is cancelled
    notStarted, \* observed: tasks that had not begun their work at that moment
    gctxDone,   \* the errgroup context of the running executeBatch is cancelled
    groupErr,   \* the errgroup's error: the first one a goroutine returned
    sem,        \* executeBatch: number of slots taken in the sem channel
    wpc,        \* position of each task's goroutine in the running batch
    attempt,    \* executeWithRetry: loop variable of each task's call
    sleepKind,  \* which select a sleeping goroutine waits in
    werr,       \* error returned by each task's executeTask
    outcomes,   \* observed: outcomes of each task's finished backend attempts
    limited,    \* RateLimiter.limited
    retryAfter, \* RateLimiter.retryAfter (a time)
    requests,   \* RateLimiter.requests: recorded request times
    mu,         \* RateLimiter.mu: 0, or the caller holding the write lock
    now,        \* the clock, in ticks
    rpc,        \* position of each caller inside Wait
    wakeAt,     \* time a sleeping caller's time.Sleep ends
    stamp,      \* Wait's local `now`, taken after Lock
    admits,     \* observed: return times of Wait calls in the last window
    deadline,   \* observed: deadline set by the last SetRateLimit
    owed        \* observed: per running Wait call, the time the window that
                \* was full when the call was made frees a place (else 0)

regVars == <<tasks, idCounter, lastErr, lastCall>>
sortVars == <<sortPhase, batches, sortErr, order, orderErr>>
mainVars == <<maxWorkers, pcMain, batchIdx, execErr, report, ctxDone, notStarted>>
batchVars == <<gctxDone, groupErr, sem, activeWorkers, wpc, attempt, sleepKind, werr,
               outcomes>>
execVars == <<mainVars, batchVars>>
rlVars == <<limited, retryAfter, requests, mu, now, rpc, wakeAt, stamp, admits,
            deadline, owed>>
viewVars == <<snapshot, idea, ipc>>
vars == <<regVars, viewVars, sortVars, execVars, rlVars>>

\* ----------------------------------------------------------------- helpers
Range(s) == {s[i] : i \in DOMAIN s}

Perms(S) == {s \in [1..Cardinality(S) -> S] : Range(s) = S}

\* types.TaskStatus
TaskStatusPending == "pending"
TaskStatusInProgress == "in_progress"
TaskStatusCompleted == "completed"
TaskStatusFailed == "failed"
TaskStatusSkipped == "skipped"

\* The Task value CreateTask builds.
NewTask ==
    [Dependencies |-> <<>>, Status |-> TaskStatusPending, Result |-> "",
     Error |-> "nil", RetryCount |-> 0, CompletedAt |-> FALSE]

\* ---------------------------------------------------------- TaskManager
\* hasCycleDFS(current, target, visited): the visited map is shared by the
\* whole probe, so the result carries it along.
RECURSIVE hasCycleDFS(_, _, _, _)
RECURSIVE hasCycleDFSLoop(_, _, _, _, _)
hasCycleDFS(ts, current, target, visited) ==
    IF current = target THEN [found |-> TRUE, visited |-> visited]
    ELSE IF current \in visited THEN [found |-> FALSE, visited |-> visited]
    ELSE IF current \in DOMAIN ts
         THEN hasCycleDFSLoop(ts, ts[current].Dependencies, 1, target,
                              visited \cup {current})
         ELSE [found |-> FALSE, visited |-> visited \cup {current}]

hasCycleDFSLoop(ts, deps, i, target, visited) ==
    IF i > Len(deps) THEN [found |-> FALSE, visited |-> visited]
    ELSE LET r == hasCycleDFS(ts, deps[i], target, visited)
         IN IF r.found THEN r
            ELSE hasCycleDFSLoop(ts, deps, i + 1, target, r.visited)

\* Faulty variant: the probe runs from the dependent task towards the dependency.
wouldCreateCycleReversed(ts, taskID, dependsOnID) ==
    hasCycleDFS(ts, taskID, dependsOnID, {}).found

wouldCreateCycle(ts, taskID, dependsOnID) ==
    hasCycleDFS(ts, dependsOnID, taskID, {}).found

\* The registry after AddDependency(taskID, dependsOnID), and its error.
\* Faulty variant: the edge is appended before the cycle check.
AddDependencyResultAppendFirst(ts, taskID, dependsOnID) ==
    IF taskID \notin DOMAIN ts
    THEN [tasks |-> ts, err |-> "not_found"]
    ELSE LET appended ==
                 [ts EXCEPT ![taskID].Dependencies = Append(@, dependsOnID)]
         IN IF dependsOnID \notin DOMAIN ts
            THEN [tasks |-> ts, err |-> "not_found"]
            ELSE IF wouldCreateCycle(ts, taskID, dependsOnID)
            THEN [tasks |-> appended, err |-> "cycle"]
            ELSE [tasks |-> appended, err |-> "nil"]

AddDependencyResult(ts, taskID, dependsOnID) ==
    IF taskID \notin DOMAIN ts
    THEN [tasks |-> ts, err |-> "not_found"]
    ELSE IF dependsOnID \notin DOMAIN ts
    THEN [tasks |-> ts, err |-> "not_found"]
    ELSE IF wouldCreateCycle(ts, taskID, dependsOnID)
    THEN [tasks |-> ts, err |-> "cycle"]
    ELSE [tasks |-> [ts EXCEPT ![taskID].Dependencies = Append(@, dependsOnID)],
          err |-> "nil"]

TotalDeps(ts) ==
    LET RECURSIVE Sum(_)
        Sum(S) == IF S = {} THEN 0
                  ELSE LET t == CHOOSE x \in S : TRUE
                       IN Len(ts[t].Dependencies) + Sum(S \ {t})
    IN Sum(DOMAIN ts)

\* Faulty variant: the ID is built without the counter.
CreateTaskResultFixedID(ts, counter) ==
    [tasks |-> (1 :> NewTask) @@ ts, idCounter |-> counter + 1, id |-> 1]

\* The body of CreateTask: idCounter++, taskID from the counter,
\* tasks[taskID] = task; the task is returned.
CreateTaskResult(ts, counter) ==
    [tasks |-> (counter + 1 :> NewTask) @@ ts, idCounter |-> counter + 1,
     id |-> counter + 1]

\* CreateTask: the whole body runs under tm.mu, so calls from several
\* goroutines take effect one after the other.
CreateTask ==
    /\ idCounter < MaxTasks
    /\ LET r == CreateTaskResult(tasks, idCounter)
       IN /\ idCounter' = r.idCounter
          /\ tasks' = r.tasks
          /\ lastCall' = <<"CreateTask", r.id>>
    /\ lastErr' = "nil"
    /\ UNCHANGED <<viewVars, rlVars, sortVars, execVars>>

\* AddDependency: the whole body runs under tm.mu.
AddDependency(taskID, dependsOnID) ==
    /\ TotalDeps(tasks) < MaxEdges
    /\ LET r == AddDependencyResult(tasks, taskID, dependsOnID)
       IN /\ tasks' = r.tasks
          /\ lastErr' = r.err
    /\ lastCall' = <<"AddDependency", taskID, dependsOnID>>
    /\ UNCHANGED <<viewVars, rlVars, idCounter, sortVars, execVars>>

\* No idea is being decomposed.
NoIdea ==
    [HasDatabase |-> FALSE, HasBackend |-> FALSE, HasFrontend |-> FALSE,
     requiresAuth |-> FALSE]

IdeaIdle == idea = NoIdea /\ ipc = 0

SortIdle ==
    /\ snapshot = <<>>
    /\ sortPhase = {}
    /\ batches = <<>>
    /\ sortErr = "nil"
    /\ order = <<>>
    /\ orderErr = "nil"

\* No ExecuteTasks call is running.
ExecIdle ==
    /\ maxWorkers = DefaultWorkers
    /\ activeWorkers = 0
    /\ pcMain = "idle"
    /\ batchIdx = 0
    /\ execErr = "nil"
    /\ report = [CompletedTasks |-> 0, FailedTasks |-> 0, SkippedTasks |-> 0]
    /\ ctxDone = FALSE
    /\ notStarted = {}
    /\ gctxDone = FALSE
    /\ groupErr = "nil"
    /\ sem = 0
    /\ wpc = [t \in IDs |-> "none"]
    /\ attempt = [t \in IDs |-> 0]
    /\ sleepKind = [t \in IDs |-> "none"]
    /\ werr = [t \in IDs |-> "nil"]
    /\ outcomes = [t \in IDs |-> <<>>]

Callers == 1..NumCallers

\* NewRateLimiter; no Wait call is running.
RLIdle ==
    /\ limited = FALSE
    /\ retryAfter = 0
    /\ requests = <<>>
    /\ mu = 0
    /\ now = 0
    /\ rpc = [c \in Callers |-> "idle"]
    /\ wakeAt = [c \in Callers |-> 0]
    /\ stamp = [c \in Callers |-> 0]
    /\ admits = <<>>
    /\ deadline = 0
    /\ owed = [c \in Callers |-> 0]

InitReg ==
    /\ RLIdle
    /\ tasks = <<>>
    /\ idCounter = 0
    /\ lastErr = "nil"
    /\ lastCall = <<"NewTaskManager">>
    /\ SortIdle
    /\ IdeaIdle
    /\ ExecIdle

NextReg ==
    \/ CreateTask
    \/ \E taskID \in IDs, dependsOnID \in IDs : AddDependency(taskID, dependsOnID)

SpecReg == InitReg /\ [][NextReg]_vars

\* ------------------------------------------------------------ graph notions
\* d is reachable from t along dependency edges in one or more steps.
RECURSIVE ReachSet(_, _)
ReachSet(ts, S) ==
    LET next == S \cup UNION {Range(ts[t].Dependencies) : t \in S \cap DOMAIN ts}
    IN IF next = S THEN S ELSE ReachSet(ts, next)

DependsOnTrans(ts, t) ==
    IF t \in DOMAIN ts THEN ReachSet(ts, Range(ts[t].Dependencies)) ELSE {}

Acyclic(ts) == \A t \in DOMAIN ts : t \notin DependsOnTrans(ts, t)

Closed(ts) == \A t \in DOMAIN ts : Range(ts[t].Dependencies) \subseteq DOMAIN ts

\* ------------------------------------------------- ParallelExecutor: batches
\* The inner test of topologicalSort: every dependency is already processed.
\* Faulty variant: a task is admitted as soon as one dependency is processed.
canExecuteAnyDep(ts, t, processed) ==
    \/ ts[t].Dependencies = <<>>
    \/ \E i \in DOMAIN ts[t].Dependencies : ts[t].Dependencies[i] \in processed

canExecute(ts, t, processed) ==
    \A i \in DOMAIN ts[t].Dependencies : ts[t].Dependencies[i] \in processed

\* One pass of the outer loop per call; the batch is marked processed as a
\* whole after the scan.  A batch is kept as a set: its order is the
\* iteration order of a Go map and nothing downstream reads it.
\* Faulty variant: a batch takes only the first ready task of the scan.
RECURSIVE topologicalSortLoopOneTask(_, _, _)
topologicalSortLoopOneTask(ts, processed, acc) ==
    IF ~(Cardinality(processed) < Cardinality(DOMAIN ts)) THEN acc
    ELSE LET ready ==
                 {t \in DOMAIN ts : t \notin processed /\ canExecute(ts, t, processed)}
         IN IF ready = {} THEN acc
            ELSE LET first == CHOOSE t \in ready : \A u \in ready : t <= u
                 IN topologicalSortLoopOneTask(ts, processed \cup {first},
                                               Append(acc, {first}))

\* Faulty variant: the scan does not pass over the tasks already processed.
RECURSIVE topologicalSortLoopRescan(_, _, _)
topologicalSortLoopRescan(ts, processed, acc) ==
    IF ~(Cardinality(processed) < Cardinality(DOMAIN ts)) THEN acc
    ELSE LET currentBatch == {t \in DOMAIN ts : canExecute(ts, t, processed)}
         IN IF currentBatch \subseteq processed THEN acc
            ELSE topologicalSortLoopRescan(ts, processed \cup currentBatch,
                                           Append(acc, currentBatch))

RECURSIVE topologicalSortLoop(_, _, _)
topologicalSortLoop(ts, processed, acc) ==
    IF ~(Cardinality(processed) < Cardinality(DOMAIN ts)) THEN acc
    ELSE LET currentBatch ==
                 {t \in DOMAIN ts : t \notin processed /\ canExecute(ts, t, processed)}
         IN IF currentBatch = {} THEN acc
            ELSE topologicalSortLoop(ts, processed \cup currentBatch,
                                     Append(acc, currentBatch))

\* topologicalSort reads the tasks from the TaskManager; its graph argument
\* only feeds the inDegree map, which is never read.
topologicalSort(ts) == topologicalSortLoop(ts, {}, <<>>)

\* topologicalSort returns [][]*types.Task and nothing else: no error value.
topologicalSortErr(ts) == "nil"

Placed(bs) == UNION {bs[k] : k \in DOMAIN bs}

BatchOf(bs, t) == CHOOSE k \in DOMAIN bs : t \in bs[k]

\* ------------------------------------------- TaskManager.GetExecutionOrder
\* The edges <<dep, id>> in the order the first loop visits them: tasks in
\* the map's iteration order iter, each task's Dependencies in list order.
RECURSIVE EdgeList(_, _, _)
EdgeList(ts, iter, i) ==
    IF i > Len(iter) THEN <<>>
    ELSE [k \in DOMAIN ts[iter[i]].Dependencies |->
              <<ts[iter[i]].Dependencies[k], iter[i]>>]
         \o EdgeList(ts, iter, i + 1)

RECURSIVE Targets(_, _, _)
Targets(edges, d, i) ==
    IF i > Len(edges) THEN <<>>
    ELSE (IF edges[i][1] = d THEN <<edges[i][2]>> ELSE <<>>) \o Targets(edges, d, i + 1)

ExecGraph(ts, iter) ==
    LET edges == EdgeList(ts, iter, 1)
    IN [d \in IDs |-> Targets(edges, d, 1)]

ExecInDegree(ts) == [id \in DOMAIN ts |-> Len(ts[id].Dependencies)]

\* for _, neighbor := range graph[current] { inDegree[neighbor]--; ... }
RECURSIVE KahnRelax(_, _, _, _)
KahnRelax(nbrs, i, queue, inDegree) ==
    IF i > Len(nbrs) THEN [queue |-> queue, inDegree |-> inDegree]
    ELSE LET n == nbrs[i]
             deg == inDegree[n] - 1
         IN KahnRelax(nbrs, i + 1,
                      IF deg = 0 THEN Append(queue, n) ELSE queue,
                      [inDegree EXCEPT ![n] = deg])

RECURSIVE KahnLoop(_, _, _, _, _)
KahnLoop(ts, graph, queue, inDegree, result) ==
    IF queue = <<>> THEN result
    ELSE LET current == Head(queue)
             r == KahnRelax(graph[current], 1, Tail(queue), inDegree)
         IN KahnLoop(ts, graph, r.queue, r.inDegree,
                     IF current \in DOMAIN ts THEN Append(result, current) ELSE result)

\* Faulty variant: the length check after the loop is dropped.
GetExecutionOrderNoCheck(ts, iter, queue) ==
    [order |-> KahnLoop(ts, ExecGraph(ts, iter), queue, ExecInDegree(ts), <<>>),
     err |-> "nil"]

\* iter: iteration order of tm.tasks; queue: the zero in-degree IDs in the
\* iteration order of the inDegree map.
GetExecutionOrder(ts, iter, queue) ==
    LET result == KahnLoop(ts, ExecGraph(ts, iter), queue, ExecInDegree(ts), <<>>)
    IN IF Len(result) # Cardinality(DOMAIN ts)
       THEN [order |-> <<>>, err |-> "cycle"]
       ELSE [order |-> result, err |-> "nil"]

ZeroInDegree(ts) == {id \in DOMAIN ts : ts[id].Dependencies = <<>>}

\* ------------------------------------------------------------- SpecSort
\* The two functions applied to an arbitrary task set: n tasks, a set of at
\* most MaxEdges dependency edges (self-edges, cycles and IDs outside the set
\* included), listed in ascending order, one edge optionally listed twice.
RECURSIVE SortedSeq(_)
SortedSeq(S) ==
    IF S = {} THEN <<>>
    ELSE LET m == CHOOSE x \in S : \A y \in S : x <= y
         IN <<m>> \o SortedSeq(S \ {m})

TaskSetOf(n, E, dup) ==
    [t \in 1..n |->
        [NewTask EXCEPT !.Dependencies =
            SortedSeq({e[2] : e \in {x \in E : x[1] = t}})
            \o (IF dup \in E /\ dup[1] = t THEN <<dup[2]>> ELSE <<>>)]]

InitSort ==
    /\ RLIdle
    /\ \E n \in 1..MaxTasks :
       \E E \in {X \in SUBSET ((1..n) \X IDs) : Cardinality(X) <= MaxEdges} :
       \E dup \in E \cup {<<0, 0>>} :
          /\ tasks = TaskSetOf(n, E, dup)
          /\ idCounter = n
    /\ lastErr = "nil"
    /\ lastCall = <<"NewTaskManager">>
    /\ SortIdle
    /\ IdeaIdle
    /\ ExecIdle

RunTopologicalSort ==
    /\ "batches" \notin sortPhase
    /\ sortPhase' = sortPhase \cup {"batches"}
    /\ batches' = topologicalSort(tasks)
    /\ sortErr' = topologicalSortErr(tasks)
    /\ UNCHANGED <<viewVars, rlVars, regVars, order, orderErr, execVars>>

RunGetExecutionOrder ==
    /\ "order" \notin sortPhase
    /\ sortPhase' = sortPhase \cup {"order"}
    /\ \E iter \in Perms(DOMAIN tasks), queue \in Perms(ZeroInDegree(tasks)) :
          LET r == GetExecutionOrder(tasks, iter, queue)
          IN /\ order' = r.order
             /\ orderErr' = r.err
    /\ UNCHANGED <<viewVars, rlVars, regVars, batches, sortErr, execVars>>

NextSort ==
    \/ RunTopologicalSort
    \/ RunGetExecutionOrder

SpecSort == InitSort /\ [][NextSort]_vars

\* ------------------------------------------------------------- TaskManager
\* UpdateTaskStatus, SetTaskResult, SetTaskError on an existing task; each
\* runs under tm.mu.
\* Faulty variant: the status is stored but CompletedAt is left alone.
UpdateTaskStatusNoStamp(ts, taskID, status) ==
    [ts EXCEPT ![taskID].Status = status]

UpdateTaskStatus(ts, taskID, status) ==
    [ts EXCEPT ![taskID].Status = status,
               ![taskID].CompletedAt = IF status = TaskStatusCompleted THEN TRUE ELSE @]

SetTaskResult(ts, taskID, result) == [ts EXCEPT ![taskID].Result = result]

SetTaskError(ts, taskID, err) ==
    [ts EXCEPT ![taskID].Error = err, ![taskID].Status = TaskStatusFailed]

GetTasksByStatus(ts, status) == {t \in DOMAIN ts : ts[t].Status = status}

\* Faulty variant: a Failed dependency counts as complete too.
RECURSIVE areDependenciesTerminal(_, _, _)
areDependenciesTerminal(ts, t, i) ==
    IF i > Len(ts[t].Dependencies) THEN TRUE
    ELSE LET depID == ts[t].Dependencies[i]
         IN IF depID \in DOMAIN ts
               /\ ts[depID].Status \notin {TaskStatusCompleted, TaskStatusFailed}
            THEN FALSE
            ELSE areDependenciesTerminal(ts, t, i + 1)

\* areDependenciesComplete: the loop over task.Dependencies from index i on;
\* a dependency ID that is not in the map is passed over.
RECURSIVE areDependenciesComplete(_, _, _)
areDependenciesComplete(ts, t, i) ==
    IF i > Len(ts[t].Dependencies) THEN TRUE
    ELSE LET depID == ts[t].Dependencies[i]
         IN IF depID \in DOMAIN ts /\ ts[depID].Status # TaskStatusCompleted
            THEN FALSE
            ELSE areDependenciesComplete(ts, t, i + 1)

\* GetReadyTasks, as the set of the tasks of the returned slice.
GetReadyTasks(ts) ==
    {t \in DOMAIN ts :
        ts[t].Status = TaskStatusPending /\ areDependenciesComplete(ts, t, 1)}

\* ------------------------------------------------ ClaudeExecutor: attempts
\* What the backend process can do in one attempt: exit 0 ("ok"), exit with
\* an error and no rate-limit text ("fail"), print a rate-limit text ("rl").
Outcomes == {"ok", "fail", "rl"}

\* executeOnce ends with `return response, nil` whatever cmd.Run returned,
\* and RateLimiter.Wait only ever returns nil: the error of executeOnce is nil.
executeOnceErr(outcome) == "nil"

\* response.Output: stdout, then stderr, of the attempt.
Output(outcome) ==
    CASE outcome = "ok" -> "output"
      [] outcome = "fail" -> "error output"
      [] outcome = "rl" -> "rate limit exceeded"
      [] outcome = "canceled" -> ""

\* response.RateLimited = IsRateLimitError(output)
RateLimited(outcome) == outcome = "rl"

\* The branch executeWithRetry takes after executeOnce returned (err, response)
\* in iteration `att`.
retryBranch(err, rateLimited, att) ==
    IF err = "nil" /\ ~rateLimited THEN "return"
    ELSE IF err = "nil" /\ rateLimited THEN "cooldown"
    ELSE IF att < maxRetries - 1 THEN "backoff"
    ELSE "next"

\* backoff := time.Duration(1<<uint(attempt)) * time.Second, in seconds.
backoff(att) == 2 ^ att

\* The duration given to time.After by the select task t sleeps in, in
\* seconds: the backoff of the current iteration, or the cooldown
\* ParseRetryAfter returned (its default, 60 s).
SleepDuration(t) ==
    CASE sleepKind[t] = "backoff" -> backoff(attempt[t])
      [] sleepKind[t] = "cooldown" -> 60
      [] OTHER -> 0

\* ------------------------------------------------- ParallelExecutor: a run
\* Faulty variant: a task gets a goroutine only if its dependencies completed.
BatchTasksDepsCompleted(k) ==
    {t \in batches[k] :
        \A d \in Range(tasks[t].Dependencies) : tasks[d].Status = TaskStatusCompleted}

\* `for _, task := range batch { g.Go(...) }`: the tasks of batch k that get
\* a goroutine, i.e. every task of the batch.
BatchTasks(k) == batches[k]

CurrentBatch ==
    IF pcMain = "wait" /\ batchIdx \in DOMAIN batches THEN BatchTasks(batchIdx) ELSE {}

\* Faulty variant: the semaphore never blocks.
semFreeAlways == TRUE

\* `sem <- struct{}{}` can proceed: the channel of capacity maxWorkers has room.
semFree == sem < maxWorkers

\* Faulty variant: g.Wait() returns as soon as one goroutine has returned.
batchJoinedAny == \E t \in CurrentBatch : wpc[t] = "done"

\* g.Wait() can return: every goroutine of the batch has returned.
batchJoined == \A t \in CurrentBatch : wpc[t] = "done"

\* Faulty variant: the configured count is taken as it is.
NewParallelExecutorAsGiven(w) == w

\* NewParallelExecutor
NewParallelExecutor(w) == IF w <= 0 THEN DefaultWorkers ELSE w

\* The error values a task can end with, by their text.
\* ctx.Err() of a cancelled context.
ctxCanceled == "context canceled"

\* fmt.Errorf("max retries exceeded: %w", lastError): with a nil lastError
\* the verb prints %!w(<nil>).
maxRetriesExceeded(lastError) ==
    IF lastError = "nil" THEN "max retries exceeded: %!w(<nil>)"
    ELSE "max retries exceeded: " \o lastError

\* IsRateLimitError(text): the lower-cased text contains "rate limit", "too
\* many requests", "please wait", "retry after", "api rate limit", "quota
\* exceeded" or "throttled".  Of the texts of this model only the output of a
\* rate-limited backend attempt and an error wrapping executeOnce's
\* "rate limiter error" do.
IsRateLimitError(text) ==
    text \in {"rate limit exceeded", "rate limiter error",
              "max retries exceeded: rate limiter error"}

\* executeWithRetry's lastError when the loop ends: the error executeOnce
\* returned in the last iteration.
lastError(t) == executeOnceErr(outcomes[t][Len(outcomes[t])])

\* executeTask after Execute returned an error: SetTaskError, return err.
TaskFails(t, err) ==
    /\ tasks' = SetTaskError(tasks, t, err)
    /\ werr' = [werr EXCEPT ![t] = err]
    /\ wpc' = [wpc EXCEPT ![t] = "exit"]

\* Faulty variant: a retry starts the backend without passing the limiter.
NextAttemptSkipsWait(t) ==
    /\ attempt' = [attempt EXCEPT ![t] = @ + 1]
    /\ IF attempt[t] + 1 < maxRetries
       THEN /\ wpc' = [wpc EXCEPT ![t] = "run"]
            /\ UNCHANGED <<tasks, werr>>
       ELSE TaskFails(t, maxRetriesExceeded(lastError(t)))

\* Faulty variant: a retry does not count against maxRetries.
NextAttemptUncounted(t) ==
    /\ wpc' = [wpc EXCEPT ![t] = "gate"]
    /\ UNCHANGED <<tasks, attempt, werr>>

\* The for statement of executeWithRetry moves to the next iteration, or
\* leaves the loop with "max retries exceeded".
NextAttempt(t) ==
    /\ attempt' = [attempt EXCEPT ![t] = @ + 1]
    /\ IF attempt[t] + 1 < maxRetries
       THEN /\ wpc' = [wpc EXCEPT ![t] = "gate"]
            /\ UNCHANGED <<tasks, werr>>
       ELSE TaskFails(t, maxRetriesExceeded(lastError(t)))

\* executeOnce returned for task t with the given backend outcome.
AfterAttempt(t, outcome) ==
    LET branch == retryBranch(executeOnceErr(outcome), RateLimited(outcome), attempt[t])
    IN /\ outcomes' = [outcomes EXCEPT ![t] = Append(@, outcome)]
       /\ CASE branch = "return" ->
                 \* Execute returns the response; executeTask sets the result.
                 /\ tasks' = SetTaskResult(tasks, t, Output(outcome))
                 /\ wpc' = [wpc EXCEPT ![t] = "complete"]
                 /\ UNCHANGED <<attempt, sleepKind, werr>>
            [] branch \in {"cooldown", "backoff"} ->
                 /\ wpc' = [wpc EXCEPT ![t] = "sleep"]
                 /\ sleepKind' = [sleepKind EXCEPT ![t] = branch]
                 /\ UNCHANGED <<tasks, attempt, werr>>
            [] OTHER ->
                 /\ NextAttempt(t)
                 /\ UNCHANGED sleepKind

\* ExecuteTasks up to the batch loop: GetExecutionOrder, buildDependencyGraph,
\* topologicalSort.  report.Tasks (the ordered list) is not kept.
StartExecute ==
    /\ pcMain = "start"
    /\ \E iter \in Perms(DOMAIN tasks), queue \in Perms(ZeroInDegree(tasks)) :
          LET r == GetExecutionOrder(tasks, iter, queue)
          IN /\ orderErr' = r.err
             /\ IF r.err # "nil"
                THEN /\ pcMain' = "returned"
                     /\ execErr' = "order"
                     /\ UNCHANGED <<batches, batchIdx>>
                ELSE /\ batches' = topologicalSort(tasks)
                     /\ batchIdx' = 1
                     /\ pcMain' = "loop"
                     /\ UNCHANGED execErr
    /\ UNCHANGED <<viewVars, rlVars, regVars, sortPhase, sortErr, order, maxWorkers, report,
                   ctxDone, notStarted, batchVars>>

\* The batch loop reaches executeBatch: errgroup.WithContext(ctx), a fresh
\* sem channel, one goroutine per task of the batch.
LaunchBatch ==
    /\ pcMain = "loop"
    /\ batchIdx \in DOMAIN batches
    /\ pcMain' = "wait"
    /\ gctxDone' = ctxDone
    /\ groupErr' = "nil"
    /\ sem' = 0
    /\ wpc' = [t \in IDs |-> IF t \in BatchTasks(batchIdx) THEN "acquire" ELSE "none"]
    /\ attempt' = [t \in IDs |-> IF t \in BatchTasks(batchIdx) THEN 0 ELSE attempt[t]]
    /\ UNCHANGED <<viewVars, rlVars, regVars, sortVars, maxWorkers, batchIdx, execErr, report,
                   ctxDone, notStarted, activeWorkers, sleepKind, werr, outcomes>>

\* sem <- struct{}{} ; pe.incrementActiveWorkers()
Acquire(t) ==
    /\ t \in CurrentBatch
    /\ wpc[t] = "acquire"
    /\ semFree
    /\ sem' = sem + 1
    /\ activeWorkers' = activeWorkers + 1
    /\ wpc' = [wpc EXCEPT ![t] = "start"]
    /\ UNCHANGED <<viewVars, rlVars, regVars, sortVars, mainVars, gctxDone, groupErr, attempt,
                   sleepKind, werr, outcomes>>

\* executeTask: UpdateTaskStatus(task.ID, InProgress), then Execute begins.
StartTask(t) ==
    /\ t \in CurrentBatch
    /\ wpc[t] = "start"
    /\ tasks' = UpdateTaskStatus(tasks, t, TaskStatusInProgress)
    /\ wpc' = [wpc EXCEPT ![t] = "gate"]
    /\ UNCHANGED <<viewVars, rlVars, idCounter, lastErr, lastCall, sortVars, mainVars, gctxDone, groupErr,
                   sem,
                   activeWorkers, attempt, sleepKind, werr, outcomes>>

\* executeOnce: rateLimiter.Wait() returns and the command is started.  With
\* the context already cancelled cmd.Run returns the context's error at once
\* and the process never runs: no output.
Gate(t) ==
    /\ t \in CurrentBatch
    /\ wpc[t] = "gate"
    /\ IF gctxDone
       THEN AfterAttempt(t, "canceled")
       ELSE /\ wpc' = [wpc EXCEPT ![t] = "run"]
            /\ UNCHANGED <<tasks, attempt, sleepKind, werr, outcomes>>
    /\ UNCHANGED <<viewVars, rlVars, idCounter, lastErr, lastCall, sortVars, mainVars, gctxDone, groupErr,
                   sem,
                   activeWorkers>>

\* cmd.Run returns: the process exited by itself or was killed by the context.
BackendReturns(t) ==
    /\ t \in CurrentBatch
    /\ wpc[t] = "run"
    /\ \E outcome \in Outcomes : AfterAttempt(t, outcome)
    /\ UNCHANGED <<viewVars, rlVars, idCounter, lastErr, lastCall, sortVars, mainVars, gctxDone, groupErr,
                   sem,
                   activeWorkers>>

\* case <-time.After(...): continue
TimerFires(t) ==
    /\ t \in CurrentBatch
    /\ wpc[t] = "sleep"
    /\ NextAttempt(t)
    /\ sleepKind' = [sleepKind EXCEPT ![t] = "none"]
    /\ UNCHANGED <<viewVars, rlVars, idCounter, lastErr, lastCall, sortVars, mainVars, gctxDone, groupErr,
                   sem,
                   activeWorkers, outcomes>>

\* case <-ctx.Done(): return nil, ctx.Err()
CtxDoneInSleep(t) ==
    /\ t \in CurrentBatch
    /\ wpc[t] = "sleep"
    /\ gctxDone
    /\ TaskFails(t, ctxCanceled)
    /\ sleepKind' = [sleepKind EXCEPT ![t] = "none"]
    /\ UNCHANGED <<viewVars, rlVars, idCounter, lastErr, lastCall, sortVars, mainVars, gctxDone, groupErr,
                   sem,
                   activeWorkers, attempt, outcomes>>

\* executeTask: UpdateTaskStatus(task.ID, Completed); return nil
CompleteTask(t) ==
    /\ t \in CurrentBatch
    /\ wpc[t] = "complete"
    /\ tasks' = UpdateTaskStatus(tasks, t, TaskStatusCompleted)
    /\ wpc' = [wpc EXCEPT ![t] = "exit"]
    /\ UNCHANGED <<viewVars, rlVars, idCounter, lastErr, lastCall, sortVars, mainVars, gctxDone, groupErr,
                   sem,
                   activeWorkers, attempt, sleepKind, werr, outcomes>>

\* Faulty variant: the goroutine returns without giving its slot back.
ExitKeepSlot(t) ==
    /\ t \in CurrentBatch
    /\ wpc[t] = "exit"
    /\ activeWorkers' = activeWorkers - 1
    /\ gctxDone' = (gctxDone \/ werr[t] # "nil")
    /\ groupErr' = IF groupErr = "nil" THEN werr[t] ELSE groupErr
    /\ wpc' = [wpc EXCEPT ![t] = "done"]
    /\ attempt' = [attempt EXCEPT ![t] = 0]
    /\ werr' = [werr EXCEPT ![t] = "nil"]
    /\ outcomes' = [outcomes EXCEPT ![t] = <<>>]
    /\ UNCHANGED <<viewVars, rlVars, regVars, sortVars, mainVars, sem, sleepKind>>

\* The goroutine returns: the deferred decrementActiveWorkers and <-sem run,
\* and the errgroup cancels its context on a non-nil error.  The locals of
\* the call (attempt, the responses seen, the returned error) are gone.
Exit(t) ==
    /\ t \in CurrentBatch
    /\ wpc[t] = "exit"
    /\ activeWorkers' = activeWorkers - 1
    /\ sem' = sem - 1
    /\ gctxDone' = (gctxDone \/ werr[t] # "nil")
    /\ groupErr' = IF groupErr = "nil" THEN werr[t] ELSE groupErr
    /\ wpc' = [wpc EXCEPT ![t] = "done"]
    /\ attempt' = [attempt EXCEPT ![t] = 0]
    /\ werr' = [werr EXCEPT ![t] = "nil"]
    /\ outcomes' = [outcomes EXCEPT ![t] = <<>>]
    /\ UNCHANGED <<viewVars, rlVars, regVars, sortVars, mainVars, sleepKind>>

\* Faulty variant: a failed task is counted as completed too.
updateReportFinished(ts) ==
    [CompletedTasks |->
         Cardinality(GetTasksByStatus(ts, TaskStatusCompleted)
                     \cup GetTasksByStatus(ts, TaskStatusFailed)),
     FailedTasks |-> Cardinality(GetTasksByStatus(ts, TaskStatusFailed)),
     SkippedTasks |-> Cardinality(GetTasksByStatus(ts, TaskStatusSkipped))]

\* updateReport: the three counts, each the length of GetTasksByStatus.
updateReport(ts) ==
    [CompletedTasks |-> Cardinality(GetTasksByStatus(ts, TaskStatusCompleted)),
     FailedTasks |-> Cardinality(GetTasksByStatus(ts, TaskStatusFailed)),
     SkippedTasks |-> Cardinality(GetTasksByStatus(ts, TaskStatusSkipped))]

\* Faulty variant: the error of the last batch is returned to the caller.
ExecuteTasksErrOfBatch(batchErr) == batchErr

\* What ExecuteTasks returns after the batch loop: executeBatch's error was
\* only logged ("Continue with other batches even if one fails") and the
\* function ends with `return report, nil`.
ExecuteTasksErr(batchErr) == "nil"

\* g.Wait() returns the group's error; ExecuteTasks logs it, calls
\* updateReport and goes on with the next batch, or returns the report.
BatchReturns ==
    /\ pcMain = "wait"
    /\ batchJoined
    /\ report' = updateReport(tasks)
    /\ batchIdx' = batchIdx + 1
    /\ IF batchIdx + 1 \in DOMAIN batches
       THEN /\ pcMain' = "loop"
            /\ UNCHANGED execErr
       ELSE /\ pcMain' = "returned"
            /\ execErr' = ExecuteTasksErr(groupErr)
    /\ UNCHANGED <<viewVars, rlVars, regVars, sortVars, maxWorkers, ctxDone, notStarted, batchVars>>

\* The caller cancels the context it gave to ExecuteTasks while the call is
\* running; the errgroup context derived from it is cancelled with it.
Cancel ==
    /\ pcMain \in {"loop", "wait"}
    /\ ~ctxDone
    /\ ctxDone' = TRUE
    /\ gctxDone' = TRUE
    /\ notStarted' = {t \in CurrentBatch : wpc[t] \in {"acquire", "start"}}
    /\ UNCHANGED <<viewVars, rlVars, regVars, sortVars, maxWorkers, pcMain, batchIdx, execErr, report,
                   groupErr, sem, activeWorkers, wpc, attempt, sleepKind, werr, outcomes>>

Worker(t) ==
    \/ Acquire(t)
    \/ StartTask(t)
    \/ Gate(t)
    \/ BackendReturns(t)
    \/ TimerFires(t)
    \/ CtxDoneInSleep(t)
    \/ CompleteTask(t)
    \/ Exit(t)

Main ==
    \/ StartExecute
    \/ LaunchBatch
    \/ BatchReturns

\* An acyclic registry as CreateTask and AddDependency build it (task t
\* depends on a set of tasks created before it), every task Pending, and an
\* executor made by NewParallelExecutor with a configured worker count.
ExecStart ==
    /\ RLIdle
    /\ lastErr = "nil"
    /\ lastCall = <<"NewTaskManager">>
    /\ SortIdle
    /\ IdeaIdle
    /\ \E w \in -1..MaxWorkers : maxWorkers = NewParallelExecutor(w)
    /\ activeWorkers = 0
    /\ pcMain = "start"
    /\ batchIdx = 0
    /\ execErr = "nil"
    /\ report = [CompletedTasks |-> 0, FailedTasks |-> 0, SkippedTasks |-> 0]
    /\ ctxDone = FALSE
    /\ notStarted = {}
    /\ gctxDone = FALSE
    /\ groupErr = "nil"
    /\ sem = 0
    /\ wpc = [t \in IDs |-> "none"]
    /\ attempt = [t \in IDs |-> 0]
    /\ sleepKind = [t \in IDs |-> "none"]
    /\ werr = [t \in IDs |-> "nil"]
    /\ outcomes = [t \in IDs |-> <<>>]

InitExec ==
    /\ \E n \in 1..MaxTasks :
       \E D \in [1..n -> SUBSET (1..MaxTasks)] :
          /\ \A t \in 1..n : D[t] \subseteq 1..(t - 1)
          /\ tasks = [t \in 1..n |-> [NewTask EXCEPT !.Dependencies = SortedSeq(D[t])]]
          /\ idCounter = n
    /\ ExecStart

\* Tasks without dependencies: topologicalSort yields one batch holding all.
InitBatch ==
    /\ \E n \in 1..MaxBatch :
          /\ tasks = [t \in 1..n |-> NewTask]
          /\ idCounter = n
    /\ ExecStart

NextExec ==
    \/ Main
    \/ \E t \in IDs : Worker(t)

\* Every goroutine that can take a step eventually takes one: the Go
\* scheduler runs runnable goroutines, backend calls return, timers fire.
FairExec ==
    /\ WF_vars(Main)
    /\ \A t \in IDs : WF_vars(Worker(t))

SpecExec == InitExec /\ [][NextExec]_vars /\ FairExec

SpecBatch == InitBatch /\ [][NextExec]_vars /\ FairExec

\* The same run with a caller that may cancel.
NextCancel ==
    \/ NextExec
    \/ Cancel

SpecCancel == InitBatch /\ [][NextCancel]_vars

\* ------------------------------------------------- TaskManager: status calls
\* The exported status operations called by any client of the registry, in
\* any order; each returns "task not found" for an unknown ID and otherwise
\* writes the field without looking at the current status.
TaskStatuses ==
    {TaskStatusPending, TaskStatusInProgress, TaskStatusCompleted, TaskStatusFailed,
     TaskStatusSkipped}

CallUpdateTaskStatus(taskID, status) ==
    /\ IF taskID \in DOMAIN tasks
       THEN /\ tasks' = UpdateTaskStatus(tasks, taskID, status)
            /\ lastErr' = "nil"
       ELSE /\ lastErr' = "not_found"
            /\ UNCHANGED tasks
    /\ lastCall' = <<"UpdateTaskStatus", taskID, status>>
    /\ UNCHANGED <<idCounter, viewVars, sortVars, execVars, rlVars>>

CallSetTaskResult(taskID, result) ==
    /\ IF taskID \in DOMAIN tasks
       THEN /\ tasks' = SetTaskResult(tasks, taskID, result)
            /\ lastErr' = "nil"
       ELSE /\ lastErr' = "not_found"
            /\ UNCHANGED tasks
    /\ lastCall' = <<"SetTaskResult", taskID>>
    /\ UNCHANGED <<idCounter, viewVars, sortVars, execVars, rlVars>>

CallSetTaskError(taskID, err) ==
    /\ IF taskID \in DOMAIN tasks
       THEN /\ tasks' = SetTaskError(tasks, taskID, err)
            /\ lastErr' = "nil"
       ELSE /\ lastErr' = "not_found"
            /\ UNCHANGED tasks
    /\ lastCall' = <<"SetTaskError", taskID>>
    /\ UNCHANGED <<idCounter, viewVars, sortVars, execVars, rlVars>>

\* A registry of Pending tasks without dependencies, no run in progress.
InitStatus ==
    /\ RLIdle
    /\ \E n \in 1..MaxBatch :
          /\ tasks = [t \in 1..n |-> NewTask]
          /\ idCounter = n
    /\ lastErr = "nil"
    /\ lastCall = <<"NewTaskManager">>
    /\ SortIdle
    /\ IdeaIdle
    /\ ExecIdle

NextStatus ==
    \/ \E taskID \in 1..MaxBatch + 1, status \in TaskStatuses :
          CallUpdateTaskStatus(taskID, status)
    \/ \E taskID \in 1..MaxBatch + 1 : CallSetTaskResult(taskID, Output("ok"))
    \/ \E taskID \in 1..MaxBatch + 1 : CallSetTaskError(taskID, ctxCanceled)

SpecStatus == InitStatus /\ [][NextStatus]_vars

\* The calls that write a task's Status.
NextStamp ==
    \/ \E taskID \in 1..MaxBatch + 1, status \in TaskStatuses :
          CallUpdateTaskStatus(taskID, status)
    \/ \E taskID \in 1..MaxBatch + 1 : CallSetTaskError(taskID, ctxCanceled)

SpecStamp == InitStatus /\ [][NextStamp]_vars

\* --------------------------------------------------- TaskManager: snapshots
\* GetAllTasks: under RLock, `tasks = append(tasks, task)` for each task of
\* the map, in the map's iteration order iter.  The slice holds the map's own
\* *types.Task values.
GetAllTasks(ts, iter) == iter

\* GetTasksByStatus: the same, keeping the tasks with task.Status == status.
GetTasksWithStatus(ts, iter, status) == SelectSeq(iter, LAMBDA t : ts[t].Status = status)

CallGetAllTasks ==
    /\ \E iter \in Perms(DOMAIN tasks) : snapshot' = GetAllTasks(tasks, iter)
    /\ lastCall' = <<"GetAllTasks">>
    /\ lastErr' = "nil"
    /\ UNCHANGED <<tasks, idCounter, idea, ipc, sortVars, execVars, rlVars>>

CallGetTasksByStatus(status) ==
    /\ \E iter \in Perms(DOMAIN tasks) : snapshot' = GetTasksWithStatus(tasks, iter, status)
    /\ lastCall' = <<"GetTasksByStatus", status>>
    /\ lastErr' = "nil"
    /\ UNCHANGED <<tasks, idCounter, idea, ipc, sortVars, execVars, rlVars>>

\* The client assigns to a field of a task it was handed: snapshot[i].Status
\* = status is a store through the pointer, into the Task it points to.
ClientWrite(i, status) ==
    /\ i \in DOMAIN snapshot
    /\ tasks' = [tasks EXCEPT ![snapshot[i]].Status = status]
    /\ lastCall' = <<"ClientWrite", i, status>>
    /\ UNCHANGED <<idCounter, lastErr, viewVars, sortVars, execVars, rlVars>>

NextSnap ==
    \/ CallGetAllTasks
    \/ \E status \in TaskStatuses : CallGetTasksByStatus(status)
    \/ \E i \in 1..MaxBatch, status \in TaskStatuses : ClientWrite(i, status)
    \/ \E taskID \in 1..MaxBatch, status \in TaskStatuses :
          CallUpdateTaskStatus(taskID, status)

SpecSnap == InitStatus /\ [][NextSnap]_vars

\* ------------------------------------------------------------ RateLimiter
\* "Clean old requests": the requests with req.After(cutoff), cutoff = t - window.
pruneRequests(reqs, t) == SelectSeq(reqs, LAMBDA r : r > t - window)

\* Faulty variant: the window takes one request more before it is full.
windowFullOffByOne(reqs) == Len(reqs) > maxRequests

\* len(rl.requests) >= rl.maxRequests
windowFull(reqs) == Len(reqs) >= maxRequests

\* rl.limited && time.Now().Before(rl.retryAfter)
coolingDown == limited /\ now < retryAfter

\* IsRateLimited, under RLock.
IsRateLimited == limited /\ now < retryAfter

\* GetRetryAfter, under RLock.
GetRetryAfter == retryAfter

\* A Wait call of caller c returns at the current time (observed in admits);
\* the locals of the call are gone.
WaitReturns(c) ==
    /\ rpc' = [rpc EXCEPT ![c] = "idle"]
    /\ wakeAt' = [wakeAt EXCEPT ![c] = 0]
    /\ stamp' = [stamp EXCEPT ![c] = 0]
    /\ admits' = Append(admits, now)
    /\ owed' = [owed EXCEPT ![c] = 0]

\* A goroutine calls Wait.  First part, under RLock: in a cooldown, compute
\* waitTime, RUnlock and go to sleep; otherwise RUnlock and go on to Lock.
WaitCheck(c) ==
    /\ rpc[c] = "idle"
    /\ mu = 0
    /\ IF coolingDown
       THEN /\ wakeAt' = [wakeAt EXCEPT ![c] = retryAfter]
            /\ rpc' = [rpc EXCEPT ![c] = "cooldown_sleep"]
       ELSE /\ rpc' = [rpc EXCEPT ![c] = "lock"]
            /\ UNCHANGED wakeAt
    /\ LET inWindow == {i \in DOMAIN requests : requests[i] > now - window}
       IN owed' = [owed EXCEPT ![c] =
                      IF Cardinality(inWindow) >= maxRequests
                      THEN requests[CHOOSE i \in inWindow : \A j \in inWindow : i <= j]
                           + window
                      ELSE 0]
    /\ UNCHANGED <<limited, retryAfter, requests, mu, now, stamp, admits, deadline>>
    /\ UNCHANGED <<regVars, viewVars, sortVars, execVars>>

\* time.Sleep(waitTime) of the cooldown branch ends; return nil.
WaitCooldownWake(c) ==
    /\ rpc[c] = "cooldown_sleep"
    /\ now >= wakeAt[c]
    /\ WaitReturns(c)
    /\ UNCHANGED <<limited, retryAfter, requests, mu, now, deadline>>
    /\ UNCHANGED <<regVars, viewVars, sortVars, execVars>>

\* Wait, second part: Lock, now := time.Now(), prune; with the window full set
\* limited and retryAfter and sleep holding the lock, otherwise record the
\* request and return.
WaitLock(c) ==
    /\ rpc[c] = "lock"
    /\ mu = 0
    /\ LET kept == pruneRequests(requests, now)
       IN IF windowFull(kept)
          THEN /\ requests' = kept
               /\ limited' = TRUE
               /\ retryAfter' = kept[1] + window
               /\ wakeAt' = [wakeAt EXCEPT ![c] = kept[1] + window]
               /\ stamp' = [stamp EXCEPT ![c] = now]
               /\ mu' = c
               /\ rpc' = [rpc EXCEPT ![c] = "window_sleep"]
               /\ UNCHANGED <<admits, owed>>
          ELSE /\ requests' = Append(kept, now)
               /\ WaitReturns(c)
               /\ UNCHANGED <<limited, retryAfter, mu>>
    /\ UNCHANGED <<now, deadline>>
    /\ UNCHANGED <<regVars, viewVars, sortVars, execVars>>

\* Faulty variant: the call returns without Unlock.
WaitWindowWakeKeepsLock(c) ==
    /\ rpc[c] = "window_sleep"
    /\ now >= wakeAt[c]
    /\ limited' = FALSE
    /\ requests' = Append(requests, stamp[c])
    /\ WaitReturns(c)
    /\ UNCHANGED <<retryAfter, now, deadline, mu>>
    /\ UNCHANGED <<regVars, viewVars, sortVars, execVars>>

\* time.Sleep of the window branch ends: limited = false, the request is
\* recorded with the time taken before the sleep, Unlock, return nil.
WaitWindowWake(c) ==
    /\ rpc[c] = "window_sleep"
    /\ now >= wakeAt[c]
    /\ limited' = FALSE
    /\ requests' = Append(requests, stamp[c])
    /\ mu' = 0
    /\ WaitReturns(c)
    /\ UNCHANGED <<retryAfter, now, deadline>>
    /\ UNCHANGED <<regVars, viewVars, sortVars, execVars>>

\* The durations ParseRetryAfter returns, in the unit of the one-minute
\* window: 30 s and 60 s (the default).  Its 5 and 10 minutes end, like a
\* 60 s cooldown set late, after the last tick of the clock.
Cooldowns == {window \div 2, window}

\* SetRateLimit(d), whole body under Lock.
SetRateLimit(d) ==
    /\ mu = 0
    /\ limited' = TRUE
    /\ retryAfter' = now + d
    /\ deadline' = now + d
    /\ UNCHANGED <<requests, mu, now, rpc, wakeAt, stamp, admits, owed>>
    /\ UNCHANGED <<regVars, viewVars, sortVars, execVars>>

\* The clock advances by one tick; returns older than the window leave the
\* observed list.
Tick ==
    /\ now < MaxTime
    /\ now' = now + 1
    /\ admits' = SelectSeq(admits, LAMBDA a : a > now + 1 - window)
    /\ UNCHANGED <<limited, retryAfter, requests, mu, rpc, wakeAt, stamp, deadline, owed>>
    /\ UNCHANGED <<regVars, viewVars, sortVars, execVars>>

Caller(c) ==
    \/ WaitCheck(c)
    \/ WaitCooldownWake(c)
    \/ WaitLock(c)
    \/ WaitWindowWake(c)

InitRL ==
    /\ RLIdle
    /\ tasks = <<>>
    /\ idCounter = 0
    /\ lastErr = "nil"
    /\ lastCall = <<"NewTaskManager">>
    /\ SortIdle
    /\ IdeaIdle
    /\ ExecIdle

NextRL ==
    \/ \E c \in Callers : Caller(c)
    \/ \E d \in Cooldowns : SetRateLimit(d)
    \/ Tick

SpecRL == InitRL /\ [][NextRL]_vars

\* The context of the Execute calls whose executeOnce is calling Wait is
\* cancelled.  Wait takes no context: nothing in it reads the cancellation.
CancelCallers ==
    /\ ~ctxDone
    /\ ctxDone' = TRUE
    /\ UNCHANGED <<regVars, viewVars, sortVars, rlVars, batchVars, maxWorkers, pcMain,
                   batchIdx, execErr, report, notStarted>>

NextRLCancel ==
    \/ NextRL
    \/ CancelCallers

SpecRLCancel == InitRL /\ [][NextRLCancel]_vars

\* The limiter when no backend attempt is ever rate-limited: SetRateLimit is
\* not called, so no cooldown is set and the cooldown branch of Wait is never
\* entered.
NextWindow ==
    \/ \E c \in Callers : WaitCheck(c) \/ WaitLock(c) \/ WaitWindowWake(c)
    \/ Tick

SpecWindow == InitRL /\ [][NextWindow]_vars

\* ------------------------------------------- RateLimiter: every call returns
\* Reset, whole body under Lock.  time.Time{} is the value retryAfter has
\* after NewRateLimiter.
Reset ==
    /\ mu = 0
    /\ limited' = FALSE
    /\ retryAfter' = 0
    /\ requests' = <<>>
    /\ deadline' = 0
    /\ UNCHANGED <<mu, now, rpc, wakeAt, stamp, admits, owed>>
    /\ UNCHANGED <<regVars, viewVars, sortVars, execVars>>

\* An IsRateLimited call: RLock (no writer holds the lock), read, RUnlock.
\* The limiter is left as it was.
CallIsRateLimited ==
    /\ mu = 0
    /\ IsRateLimited \in BOOLEAN
    /\ UNCHANGED vars

\* A GetRetryAfter call, the same way.
CallGetRetryAfter ==
    /\ mu = 0
    /\ GetRetryAfter \in Nat
    /\ UNCHANGED vars

Sleeping(c) == rpc[c] \in {"cooldown_sleep", "window_sleep"} /\ wakeAt[c] > now

\* Time goes on past MaxTime for as long as a call sleeps towards a later
\* instant.
TickLate ==
    /\ now >= MaxTime
    /\ \E c \in Callers : Sleeping(c)
    /\ now' = now + 1
    /\ admits' = SelectSeq(admits, LAMBDA a : a > now + 1 - window)
    /\ UNCHANGED <<limited, retryAfter, requests, mu, rpc, wakeAt, stamp, deadline, owed>>
    /\ UNCHANGED <<regVars, viewVars, sortVars, execVars>>

\* The workers make their calls, any number of them and in any order, before
\* the first tick; the calls in progress then run on.  Reset empties the
\* window, so that more calls are let through at one instant: it is called
\* while the list of the observed returns is short.
CallsOpen == now = 0

CallWait(c) == CallsOpen /\ WaitCheck(c)

CallSetRateLimit(d) == CallsOpen /\ SetRateLimit(d)

CallReset == CallsOpen /\ Len(admits) <= maxRequests /\ Reset

NextRLLive ==
    \/ \E c \in Callers : CallWait(c)
    \/ \E d \in Cooldowns : CallSetRateLimit(d)
    \/ CallReset
    \/ CallIsRateLimited
    \/ CallGetRetryAfter
    \/ \E c \in Callers : WaitCooldownWake(c) \/ WaitLock(c) \/ WaitWindowWake(c)
    \/ Tick
    \/ TickLate

\* Time advances, a sleep that is over ends, and a goroutine waiting for the
\* lock gets it when it is free again and again.
FairRL ==
    /\ WF_vars(Tick \/ TickLate)
    /\ \A c \in Callers :
          /\ WF_vars(WaitCooldownWake(c))
          /\ WF_vars(WaitWindowWake(c))
          /\ SF_vars(WaitLock(c))

SpecRLLive == InitRL /\ [][NextRLLive]_vars /\ FairRL

\* ------------------------------------------------ IdeaProcessor: task graph
TaskTypeFrontend == "frontend"
TaskTypeBackend == "backend"
TaskTypeDatabase == "database"
TaskTypeTesting == "testing"
TaskTypeDocumentation == "documentation"
TaskTypeDevOps == "devops"

\* The ProcessedIdea, as far as the task graph reads it: the three flags, and
\* whether a feature mentions one of the keywords requiresAuth looks for.
Ideas ==
    [HasDatabase : BOOLEAN, HasBackend : BOOLEAN, HasFrontend : BOOLEAN,
     requiresAuth : BOOLEAN]

\* The types of the tasks each helper creates, in the order of its CreateTask
\* calls.
createBackendTasks(i) ==
    <<TaskTypeBackend, TaskTypeBackend>>
        \o (IF i.requiresAuth THEN <<TaskTypeBackend>> ELSE <<>>)

createFrontendTasks == <<TaskTypeFrontend, TaskTypeFrontend, TaskTypeFrontend>>

createTestingTasks == <<TaskTypeTesting, TaskTypeTesting>>

\* decomposeTasks: the Type of every task of the returned slice.  On a new
\* TaskManager the k-th CreateTask call yields ID k, so that the k-th task
\* of the slice is task k.
decomposeTasks(i) ==
    <<TaskTypeDevOps>>
        \o (IF i.HasDatabase THEN <<TaskTypeDatabase>> ELSE <<>>)
        \o (IF i.HasBackend THEN createBackendTasks(i) ELSE <<>>)
        \o (IF i.HasFrontend THEN createFrontendTasks ELSE <<>>)
        \o createTestingTasks
        \o <<TaskTypeDocumentation>>

\* for _, task := range ts { for _, depTask := range ds { AddDependency } }
DependencyCalls(ts, ds) ==
    [k \in 1..(Len(ts) * Len(ds)) |->
        <<ts[((k - 1) \div Len(ds)) + 1], ds[((k - 1) % Len(ds)) + 1]>>]

\* initTaskID := tasks[0].ID
initTaskID == 1

\* setupDependencies: its AddDependency calls <<taskID, dependsOnID>>, in
\* order, for the slice whose k-th task has type types[k].
setupDependencies(types) ==
    LET n == Len(types)
        all == [k \in 1..n |-> k]
        OfType(T) == SelectSeq(all, LAMBDA k : types[k] \in T)
        databases == OfType({TaskTypeDatabase})
        backends == OfType({TaskTypeBackend})
        frontends == OfType({TaskTypeFrontend})
    IN IF n < 2 THEN <<>>
       ELSE DependencyCalls(SelectSeq(databases, LAMBDA k : k > 1), <<initTaskID>>)
            \o (IF databases # <<>>
                THEN DependencyCalls(backends, <<databases[1]>>)
                ELSE <<>>)
            \o DependencyCalls(frontends, <<initTaskID>>)
            \o DependencyCalls(OfType({TaskTypeTesting}),
                               OfType({TaskTypeBackend, TaskTypeFrontend}))
            \o DependencyCalls(OfType({TaskTypeDocumentation}),
                               SelectSeq(all, LAMBDA k :
                                            types[k] # TaskTypeDocumentation))

\* decomposeTasks makes its next CreateTask call.
DecomposeStep ==
    /\ ipc < Len(decomposeTasks(idea))
    /\ LET r == CreateTaskResult(tasks, idCounter)
       IN /\ idCounter' = r.idCounter
          /\ tasks' = r.tasks
          /\ lastCall' = <<"CreateTask", r.id>>
    /\ lastErr' = "nil"
    /\ ipc' = ipc + 1
    /\ UNCHANGED <<snapshot, idea, rlVars, sortVars, execVars>>

\* setupDependencies makes its next AddDependency call; the error the call
\* returns is dropped.
SetupStep ==
    LET types == decomposeTasks(idea)
        calls == setupDependencies(types)
        k == ipc - Len(types) + 1
    IN /\ ipc >= Len(types)
       /\ k \in DOMAIN calls
       /\ LET r == AddDependencyResult(tasks, calls[k][1], calls[k][2])
          IN /\ tasks' = r.tasks
             /\ lastErr' = r.err
       /\ lastCall' = <<"AddDependency", calls[k][1], calls[k][2]>>
       /\ ipc' = ipc + 1
       /\ UNCHANGED <<snapshot, idea, idCounter, rlVars, sortVars, execVars>>

GraphBuilt ==
    ipc = Len(decomposeTasks(idea)) + Len(setupDependencies(decomposeTasks(idea)))

\* The executor sorts the finished graph into batches.
SortGraph == GraphBuilt /\ RunTopologicalSort

InitIdea ==
    /\ RLIdle
    /\ tasks = <<>>
    /\ idCounter = 0
    /\ lastErr = "nil"
    /\ lastCall = <<"NewTaskManager">>
    /\ SortIdle
    /\ ExecIdle
    /\ idea \in Ideas
    /\ ipc = 0

NextIdea ==
    \/ DecomposeStep
    \/ SetupStep
    \/ SortGraph

SpecIdea == InitIdea /\ [][NextIdea]_vars

\* =================================================================== claims

\* C1: for an acyclic task set, topologicalSort puts every dependency of
\* every placed task in a strictly lower-indexed batch than the task (so no
\* two tasks of one batch depend on each other), and it places every task.
C1_DepsInEarlierBatch ==
    ("batches" \in sortPhase /\ Acyclic(tasks) /\ Closed(tasks)) =>
        /\ Placed(batches) = DOMAIN tasks
        /\ \A k \in DOMAIN batches : \A t \in batches[k] :
              \A d \in Range(tasks[t].Dependencies) :
                 \E j \in 1..(k - 1) : d \in batches[j]

C1_Witness ==
    /\ "batches" \in sortPhase
    /\ Acyclic(tasks) /\ Closed(tasks)
    /\ Len(batches) = 3
    /\ \E t \in batches[3] : Len(tasks[t].Dependencies) >= 2

Terminal(t) == tasks[t].Status \in {TaskStatusCompleted, TaskStatusFailed}

InProgressTasks == GetTasksByStatus(tasks, TaskStatusInProgress)

\* C2: in one ExecuteTasks run, a task has left Pending only if every one
\* of its dependencies is Completed or Failed, and only if every task of
\* every earlier batch is.
C2_DepsTerminalBeforeStart ==
    /\ \A t \in DOMAIN tasks :
          tasks[t].Status # TaskStatusPending =>
              \A d \in Range(tasks[t].Dependencies) : Terminal(d)
    /\ \A k \in DOMAIN batches : \A t \in batches[k] :
          tasks[t].Status # TaskStatusPending =>
              \A j \in 1..(k - 1) : \A u \in batches[j] : Terminal(u)

C2_Witness ==
    \E t \in DOMAIN tasks :
       /\ tasks[t].Status = TaskStatusInProgress
       /\ \E d \in Range(tasks[t].Dependencies) : tasks[d].Status = TaskStatusFailed
       /\ \E d \in Range(tasks[t].Dependencies) : tasks[d].Status = TaskStatusCompleted

\* C3: the number of InProgress tasks never exceeds the worker budget.
C3_InProgressWithinBudget == Cardinality(InProgressTasks) <= maxWorkers

C3_Witness ==
    /\ Cardinality(InProgressTasks) = maxWorkers
    /\ sem = maxWorkers
    /\ \E t \in CurrentBatch : wpc[t] = "acquire"

\* C4: a task's final status depends on its own backend attempts only: in a
\* run whose caller never cancels, a task is recorded Failed only when its
\* own maxRetries attempts were all rate-limited, whatever its siblings did.
C4_SiblingFailureIsolated ==
    \A t \in DOMAIN tasks :
       (wpc[t] = "exit" /\ tasks[t].Status = TaskStatusFailed) =>
           /\ Len(outcomes[t]) = maxRetries
           /\ \A i \in DOMAIN outcomes[t] : outcomes[t][i] = "rl"

\* C5: every executeBatch call returns, and when it has returned every task
\* of its batch is Completed or Failed.
C5_BatchTerminates ==
    (pcMain = "wait") ~> (pcMain # "wait" /\ \A t \in DOMAIN tasks : Terminal(t))

C5_Witness ==
    /\ pcMain = "returned"
    /\ Cardinality(batches[1]) > maxWorkers
    /\ \E t \in batches[1] : tasks[t].Status = TaskStatusFailed
    /\ \E t \in batches[1] : tasks[t].Status = TaskStatusCompleted

AddDependencyMustFail(ts, taskID, dependsOnID) ==
    \/ taskID \notin DOMAIN ts
    \/ dependsOnID \notin DOMAIN ts
    \/ taskID = dependsOnID
    \/ taskID \in DependsOnTrans(ts, dependsOnID)

C7_FailedAddDependencyKeepsGraph ==
    [][/\ (lastCall'[1] = "AddDependency"
           /\ AddDependencyMustFail(tasks, lastCall'[2], lastCall'[3]))
          => lastErr' # "nil"
       /\ lastErr' # "nil" => tasks' = tasks]_vars

C7_Witness ==
    /\ lastCall[1] = "AddDependency"
    /\ lastErr = "cycle"
    /\ lastCall[2] # lastCall[3]
    /\ TotalDeps(tasks) > 0

\* C8: whatever CreateTask and AddDependency calls were made, no task
\* reaches itself along dependency edges.
C8_RegistryAcyclic == Acyclic(tasks)

C8_Witness ==
    /\ lastCall[1] = "AddDependency"
    /\ lastErr = "cycle"
    /\ \E a \in DOMAIN tasks, b \in DOMAIN tasks, c \in DOMAIN tasks :
          /\ a # b /\ b # c /\ a # c
          /\ b \in Range(tasks[a].Dependencies)
          /\ c \in Range(tasks[b].Dependencies)
          /\ lastCall = <<"AddDependency", c, a>>

\* C9: at any time, the Wait calls that returned within the last `window`
\* ticks (the interval (now - window, now]) number at most maxRequests.
C9_AtMostMaxRequestsPerWindow == Len(admits) <= maxRequests

\* C10: a Wait call never returns before the deadline of a SetRateLimit
\* made before the call or while the call was running.
C10_NoReturnBeforeCooldown ==
    [][\A c \in Callers :
          (rpc[c] # "idle" /\ rpc'[c] = "idle") => now >= deadline]_vars

\* The backend attempts task t's running Execute call has finished so far.
AttemptsMade(t) == Len(outcomes[t])

AllAttempts(t, outcome) == \A i \in DOMAIN outcomes[t] : outcomes[t][i] = outcome

\* C11: when executeTask returns for a task that made maxRetries attempts,
\* every one of them rate-limited, the task is Failed and its failure cause
\* is a text that indicates rate-limiting.
C11_RateLimitedCauseSaysSo ==
    \A t \in DOMAIN tasks :
       (wpc[t] = "exit" /\ AttemptsMade(t) = maxRetries /\ AllAttempts(t, "rl")) =>
           /\ tasks[t].Status = TaskStatusFailed
           /\ IsRateLimitError(tasks[t].Error)

\* C12: a task is about to be recorded Completed only after an attempt that
\* succeeded; attempts that failed with a generic error before it were
\* retried, and the result is the output of the successful attempt.
C12_CompletedBySuccessfulAttempt ==
    \A t \in DOMAIN tasks :
       wpc[t] = "complete" =>
           /\ outcomes[t][AttemptsMade(t)] = "ok"
           /\ tasks[t].Result = Output("ok")

\* C13: when executeTask returns for a task whose attempts all failed with a
\* generic error, the retry budget is used up, the task is Failed with an
\* error as its cause, and it is not Completed.
C13_GenericFailureRecordedFailed ==
    \A t \in DOMAIN tasks :
       (wpc[t] = "exit" /\ AttemptsMade(t) >= 1 /\ AllAttempts(t, "fail")) =>
           /\ AttemptsMade(t) = maxRetries
           /\ tasks[t].Status = TaskStatusFailed
           /\ tasks[t].Error # "nil"

\* C14: when the caller cancelled while ExecuteTasks was running, the call
\* returns a non-nil error to the caller.
C14_CancellationSurfaced ==
    (pcMain = "returned" /\ ctxDone) => execErr # "nil"

\* C15: a task of the running batch that had not begun its work when the
\* caller cancelled (it was waiting for a worker slot, or had just got one)
\* is never recorded Completed.
C15_UnstartedNeverCompleted ==
    \A t \in notStarted : tasks[t].Status # TaskStatusCompleted

FailedTasks == GetTasksByStatus(tasks, TaskStatusFailed)

\* C16: ExecuteTasks returns a non-nil error only when the execution order
\* could not be computed or the caller cancelled; task failures, however
\* many, leave the returned error nil and show in the report's failed count.
C16_ErrorOnlyWhenRunFatal ==
    pcMain = "returned" =>
        /\ execErr # "nil" => (orderErr # "nil" \/ ctxDone)
        /\ orderErr = "nil" => report.FailedTasks = Cardinality(FailedTasks)

C16_Witness ==
    /\ pcMain = "returned"
    /\ ~ctxDone
    /\ execErr = "nil"
    /\ Cardinality(FailedTasks) = MaxBatch
    /\ report.FailedTasks = MaxBatch

\* C17: no operation changes the status of a task that is Completed or
\* Failed.
C17_TerminalStatusIsFinal ==
    [][\A t \in DOMAIN tasks : Terminal(t) => tasks'[t].Status = tasks[t].Status]_vars

\* The position of task t in the list s (0 when absent).
PosIn(s, t) == IF \E i \in DOMAIN s : s[i] = t THEN CHOOSE i \in DOMAIN s : s[i] = t ELSE 0

\* C18: for an acyclic registry GetExecutionOrder returns, without error, a
\* list holding every task exactly once with every task after all of its
\* dependencies; for a registry with a cycle it returns the cycle error.
C18_ExecutionOrderIsTopological ==
    ("order" \in sortPhase /\ Closed(tasks)) =>
        IF Acyclic(tasks)
        THEN /\ orderErr = "nil"
             /\ Len(order) = Cardinality(DOMAIN tasks)
             /\ Range(order) = DOMAIN tasks
             /\ \A t \in DOMAIN tasks : \A d \in Range(tasks[t].Dependencies) :
                   PosIn(order, d) < PosIn(order, t)
        ELSE orderErr = "cycle"

C18_Witness ==
    /\ "order" \in sortPhase
    /\ Closed(tasks) /\ Acyclic(tasks)
    /\ orderErr = "nil"
    /\ Len(order) = MaxTasks
    /\ \E t \in DOMAIN tasks : Len(tasks[t].Dependencies) >= 2 /\ order[MaxTasks] = t
    /\ order[1] > order[2]

\* The topological level of a task of an acyclic task set: 1 without
\* dependencies, otherwise one more than the highest level of a dependency.
RECURSIVE Level(_, _)
Level(ts, t) ==
    IF ts[t].Dependencies = <<>> THEN 1
    ELSE LET ls == {Level(ts, d) : d \in Range(ts[t].Dependencies)}
         IN 1 + CHOOSE m \in ls : \A l \in ls : l <= m

\* init, db -> init, api -> db, ui -> init, test -> {api, ui}, as tasks 1..5.
ExampleTasks ==
    [t \in 1..5 |->
        [NewTask EXCEPT !.Dependencies =
            CASE t = 1 -> <<>>
              [] t = 2 -> <<1>>
              [] t = 3 -> <<2>>
              [] t = 4 -> <<1>>
              [] t = 5 -> <<3, 4>>]]

\* C19: for an acyclic task set the k-th batch of topologicalSort is exactly
\* the set of tasks of topological level k (the first batch: the tasks
\* without dependencies); the five-task example yields {init}, {db, ui},
\* {api}, {test}.
C19_BatchesAreLevels ==
    /\ ("batches" \in sortPhase /\ Acyclic(tasks) /\ Closed(tasks)) =>
          /\ \A k \in DOMAIN batches :
                batches[k] = {t \in DOMAIN tasks : Level(tasks, t) = k}
          /\ \A t \in DOMAIN tasks : Level(tasks, t) \in DOMAIN batches
    /\ topologicalSort(ExampleTasks) = <<{1}, {2, 4}, {3}, {5}>>

C19_Witness ==
    /\ "batches" \in sortPhase
    /\ Acyclic(tasks) /\ Closed(tasks)
    /\ Len(batches) = 2
    /\ Cardinality(batches[1]) = 2
    /\ \E t \in batches[2] : Len(tasks[t].Dependencies) = 1

\* C20: with no cooldown ever set, a Wait call made when maxRequests
\* requests were recorded inside the window does not return before the
\* oldest of them plus the window length.
C20_FullWindowDelaysNextWait ==
    [][\A c \in Callers : (rpc[c] # "idle" /\ rpc'[c] = "idle") => now >= owed[c]]_vars

C20_Witness ==
    \E c \in Callers :
       /\ rpc[c] = "window_sleep"
       /\ owed[c] > 0
       /\ now = owed[c]
       /\ stamp[c] < now
       /\ Len(requests) = maxRequests

\* C21: the recorded request times never number more than maxRequests, and
\* when a Wait call returns none of them is older than the window.
C21_RequestsBoundedAndFresh ==
    [][/\ Len(requests') <= maxRequests
       /\ \A c \in Callers :
             (rpc[c] # "idle" /\ rpc'[c] = "idle") =>
                 \A i \in DOMAIN requests' : requests'[i] > now' - window]_vars

\* C22: every CreateTask call returns a task whose ID no task of the
\* registry had, Pending, with no retries and no dependencies, and adds it
\* leaving every existing task as it was.
C22_CreateTaskAddsFreshTask ==
    [][(lastCall'[1] = "CreateTask" /\ idCounter' # idCounter) =>
          LET id == lastCall'[2]
          IN /\ id \notin DOMAIN tasks
             /\ DOMAIN tasks' = DOMAIN tasks \cup {id}
             /\ tasks'[id].Status = TaskStatusPending
             /\ tasks'[id].RetryCount = 0
             /\ tasks'[id].Dependencies = <<>>
             /\ \A t \in DOMAIN tasks : tasks'[t] = tasks[t]]_vars

C22_Witness ==
    /\ lastCall = <<"CreateTask", MaxTasks>>
    /\ Cardinality(DOMAIN tasks) = MaxTasks
    /\ \E t \in DOMAIN tasks : tasks[t].Dependencies # <<>>

\* C23: what GetAllTasks and GetTasksByStatus return is a copy: a client's
\* write to a returned task leaves the registry as it was, and a later
\* UpdateTaskStatus leaves the tasks of a returned snapshot as they were.
C23_SnapshotsAreCopies ==
    [][/\ lastCall'[1] = "ClientWrite" => tasks' = tasks
       /\ lastCall'[1] = "UpdateTaskStatus" =>
             \A i \in DOMAIN snapshot : tasks'[snapshot[i]] = tasks[snapshot[i]]]_vars

StatusCount(status) == Cardinality({t \in DOMAIN tasks : tasks[t].Status = status})

\* C24: once a batch has ended, and when ExecuteTasks has returned, the
\* report's CompletedTasks, FailedTasks and SkippedTasks are the numbers of
\* registry tasks that are Completed, Failed and Skipped.
C24_ReportMatchesStatuses ==
    (pcMain \in {"loop", "returned"} /\ batchIdx > 1) =>
        /\ report.CompletedTasks = StatusCount(TaskStatusCompleted)
        /\ report.FailedTasks = StatusCount(TaskStatusFailed)
        /\ report.SkippedTasks = StatusCount(TaskStatusSkipped)

C24_Witness ==
    /\ pcMain = "loop"
    /\ batchIdx = 3
    /\ report.CompletedTasks = 1
    /\ report.FailedTasks = 1
    /\ StatusCount(TaskStatusPending) = 1

HasFailedDependency(t) ==
    \E d \in Range(tasks[t].Dependencies) : tasks[d].Status = TaskStatusFailed

\* C25: a task with a Failed dependency is still placed, in a later batch
\* than the dependency, and still run: while its batch is awaited it has a
\* goroutine, and when ExecuteTasks has returned it is neither Pending nor
\* Skipped.
C25_DownstreamOfFailureStillRuns ==
    \A t \in DOMAIN tasks :
       HasFailedDependency(t) =>
           /\ t \in Placed(batches)
           /\ \A d \in Range(tasks[t].Dependencies) : BatchOf(batches, d) < BatchOf(batches, t)
           /\ (pcMain = "wait" /\ batchIdx = BatchOf(batches, t)) => wpc[t] # "none"
           /\ pcMain = "returned" =>
                 tasks[t].Status \in {TaskStatusCompleted, TaskStatusFailed}

C25_Witness ==
    /\ pcMain = "returned"
    /\ \E t \in DOMAIN tasks :
          /\ HasFailedDependency(t)
          /\ tasks[t].Status = TaskStatusCompleted
          /\ tasks[t].Result = Output("ok")

\* C26: one Execute call never makes more than maxRetries backend attempts,
\* rate-limited attempts and failed ones counted alike.
C26_AttemptsWithinBudget ==
    \A t \in DOMAIN tasks :
       /\ AttemptsMade(t) <= maxRetries
       /\ wpc[t] \in {"run", "gate"} => AttemptsMade(t) < maxRetries

C26_Witness ==
    \E t \in DOMAIN tasks :
       /\ outcomes[t] = <<"rl", "rl", "fail">>
       /\ wpc[t] = "exit"

\* C27: a backend process is started only by the step in which the
\* limiter's Wait returns for that attempt, for the first attempt and for
\* every retry; an attempt's result is only ever taken after that step.
C27_WaitBeforeEveryAttempt ==
    [][\A t \in DOMAIN tasks :
          /\ (wpc'[t] = "run" /\ wpc[t] # "run") => wpc[t] = "gate"
          /\ AttemptsMade(t) # Len(outcomes'[t]) /\ wpc[t] # "exit"
                => wpc[t] \in {"gate", "run"}]_vars

C27_Witness ==
    \E t \in DOMAIN tasks :
       /\ wpc[t] = "run"
       /\ attempt[t] = maxRetries - 1
       /\ AttemptsMade(t) = maxRetries - 1

\* C28: when the attempt with index a ends with a generic failure and
\* attempts remain, the call waits 2^a seconds before the next attempt; when
\* it was the last attempt, the call waits no more.
C28_BackoffAfterGenericFailure ==
    [][\A t \in DOMAIN tasks :
          outcomes'[t] = Append(outcomes[t], "fail") =>
              IF attempt[t] < maxRetries - 1
              THEN /\ wpc'[t] = "sleep"
                   /\ SleepDuration(t)' = 2 ^ attempt[t]
              ELSE wpc'[t] # "sleep"]_vars

\* C29: a Wait call that found a cooldown set and unexpired returns no
\* earlier than the deadline it found, and with the limiter's cooldown flag
\* cleared.
C29_CooldownWaitClearsFlag ==
    [][\A c \in Callers :
          (rpc[c] = "cooldown_sleep" /\ rpc'[c] = "idle") =>
              /\ now >= wakeAt[c]
              /\ ~limited']_vars

\* C30: once the callers' context is cancelled, a caller sleeping inside
\* Wait (window wait or cooldown wait) can return at once, without waiting
\* for the end of its sleep.
C30_WaitIsCancellable ==
    \A c \in Callers :
       (ctxDone /\ rpc[c] \in {"cooldown_sleep", "window_sleep"}) =>
           ENABLED (WaitCooldownWake(c) \/ WaitWindowWake(c))

\* C31: once the caller has cancelled, no Pending task is moved to
\* InProgress, and a task that is already Completed or Failed keeps its
\* status, result and failure cause.
C31_NoDispatchAfterCancel ==
    [][ctxDone =>
          \A t \in DOMAIN tasks :
             /\ tasks[t].Status = TaskStatusPending =>
                   tasks'[t].Status # TaskStatusInProgress
             /\ Terminal(t) => tasks'[t] = tasks[t]]_vars

\* C32: GetReadyTasks returns exactly the Pending tasks all of whose
\* dependencies are Completed; a task with a Failed (or otherwise not
\* Completed) dependency is never among them.
C32_ReadyMeansDependenciesCompleted ==
    /\ GetReadyTasks(tasks) =
          {t \in DOMAIN tasks :
              /\ tasks[t].Status = TaskStatusPending
              /\ \A d \in Range(tasks[t].Dependencies) :
                    tasks[d].Status = TaskStatusCompleted}
    /\ \A t \in GetReadyTasks(tasks) : ~HasFailedDependency(t)

C32_Witness ==
    /\ \E t \in DOMAIN tasks :
          /\ tasks[t].Status = TaskStatusPending
          /\ HasFailedDependency(t)
          /\ t \notin GetReadyTasks(tasks)
    /\ GetReadyTasks(tasks) # {}

\* C33: a task whose status is Completed has its completion timestamp set,
\* and UpdateTaskStatus with an ID that is not registered reports "not found"
\* and leaves every task as it was.
C33_CompletedIsStamped ==
    /\ [](\A t \in DOMAIN tasks :
             tasks[t].Status = TaskStatusCompleted => tasks[t].CompletedAt)
    /\ [][(/\ lastCall'[1] = "UpdateTaskStatus"
           /\ lastCall'[2] \notin DOMAIN tasks)
             => (lastErr' = "not_found" /\ tasks' = tasks)]_vars

C33_Witness ==
    /\ \E t \in DOMAIN tasks :
          tasks[t].Status = TaskStatusCompleted /\ tasks[t].CompletedAt
    /\ lastCall[1] = "UpdateTaskStatus"
    /\ lastCall[2] \notin DOMAIN tasks
    /\ lastErr = "not_found"

\* C34: after any sequence of AddDependency calls, no task's dependency list
\* holds the same ID twice, and none holds the task's own ID.
C34_DependenciesDistinctNoSelf ==
    \A t \in DOMAIN tasks :
       /\ Cardinality(Range(tasks[t].Dependencies)) = Len(tasks[t].Dependencies)
       /\ t \notin Range(tasks[t].Dependencies)

\* C35: during ExecuteTasks a task has a result payload only if its status
\* is Completed, and a failure cause only if its status is Failed.
C35_PayloadMatchesStatus ==
    \A t \in DOMAIN tasks :
       /\ tasks[t].Result # "" => tasks[t].Status = TaskStatusCompleted
       /\ tasks[t].Error # "nil" => tasks[t].Status = TaskStatusFailed

BatchesHolding(t) == {k \in DOMAIN batches : t \in batches[k]}

\* C36: for an acyclic registry every task is in exactly one batch of
\* topologicalSort, and one ExecuteTasks run moves each task to InProgress
\* exactly once: a task becomes InProgress only from Pending, leaves Pending
\* only to InProgress, never becomes Pending again, and has been through
\* InProgress when the run has returned.
C36_BatchesPartitionTasks ==
    /\ [](pcMain # "start" =>
             \A t \in DOMAIN tasks : Cardinality(BatchesHolding(t)) = 1)
    /\ [][\A t \in DOMAIN tasks :
             tasks'[t].Status # tasks[t].Status =>
                /\ tasks'[t].Status # TaskStatusPending
                /\ (tasks'[t].Status = TaskStatusInProgress)
                      <=> (tasks[t].Status = TaskStatusPending)]_vars
    /\ [](pcMain = "returned" => \A t \in DOMAIN tasks : Terminal(t))

C36_Witness ==
    /\ pcMain = "returned"
    /\ Len(batches) = 2
    /\ Cardinality(batches[2]) = 2
    /\ \A t \in DOMAIN tasks : Terminal(t)

\* C37: after SetRateLimit(d) returned at time t, and until t + d or a later
\* SetRateLimit, the limiter's deadline is t + d and IsRateLimited is true,
\* whatever the Wait calls in progress do.
C37_CooldownNotShortened ==
    now < deadline => (GetRetryAfter = deadline /\ IsRateLimited)

\* C38: whatever Wait, SetRateLimit, IsRateLimited, GetRetryAfter and Reset
\* calls the workers make, every Wait call in progress returns and the lock
\* that every call has to take is free again, given that time advances and
\* that the lock is granted fairly.
C38_EveryCallReturns ==
    /\ \A c \in Callers : (rpc[c] # "idle") ~> (rpc[c] = "idle")
    /\ (mu # 0) ~> (mu = 0)

C38_Witness ==
    \E c \in Callers, b \in Callers :
       /\ rpc[c] = "window_sleep" /\ mu = c /\ wakeAt[c] > now
       /\ rpc[b] = "lock"
       /\ limited /\ deadline > now

\* C39: whatever worker count was configured (zero and negative included),
\* the worker budget of the executor is at least 1, every goroutine of a
\* batch that waits for a slot of the semaphore gets one, and the batch is
\* joined.
C39_BudgetAtLeastOne ==
    /\ [](maxWorkers >= 1)
    /\ \A t \in IDs : (wpc[t] = "acquire") ~> (wpc[t] = "start")
    /\ (pcMain = "wait") ~> (pcMain = "returned")

C39_Witness ==
    /\ maxWorkers = DefaultWorkers
    /\ MaxWorkers < DefaultWorkers
    /\ pcMain = "returned"
    /\ DOMAIN tasks = 1..MaxBatch
    /\ \A t \in DOMAIN tasks : wpc[t] = "done" /\ Terminal(t)

\* C40: in the graph decomposeTasks and setupDependencies build, whatever
\* the HasDatabase, HasBackend and HasFrontend flags, every task other than
\* the initialization task depends on it, directly or through other tasks,
\* and the first batch holds the initialization task alone.
C40_InitTaskAloneInFirstBatch ==
    (GraphBuilt /\ "batches" \in sortPhase) =>
        /\ \A t \in DOMAIN tasks \ {initTaskID} : initTaskID \in DependsOnTrans(tasks, t)
        /\ batches[1] = {initTaskID}

====
